---- MODULE Spec2Model ----
(***************************************************************************)
(* The graph-editing engine of NetworkSimulator (src/src/netsim_window.cpp, *)
(* src/src/netsim_classes.h): the node and edge lists, the incident-edge    *)
(* lists, the scene's selection with the z-order policy, and the            *)
(* edge-creation mode.                                                      *)
(*                                                                          *)
(* Objects are identified by the order of their allocation: node i is the   *)
(* i-th NetworkNode ever created, edge j the j-th NetworkEdge.  A destroyed *)
(* object keeps its identity (the pointers to it dangle); the allocator     *)
(* handing the address of a destroyed object to a later one is not          *)
(* modelled.  A handler that reads or writes a destroyed object has         *)
(* undefined behaviour: the model lets it either go on with the values the  *)
(* object had when it was destroyed (its writes are lost), recording ub, or *)
(* end the process (Crash).                                                 *)
(*                                                                          *)
(* The QGraphicsScene is modelled by what the handlers use of it: the set   *)
(* of items it holds, the set of selected items, and the selectionChanged   *)
(* signal, which is connected to onSelectionChanged (line 355) and is       *)
(* delivered synchronously whenever the selected set changes.               *)
(***************************************************************************)
EXTENDS Integers, Sequences, FiniteSets, TLC

\* ------------------------------------------------------------------ bounds
\* The nodes of testGraph the pointer gets over: A and B.  It also gets
\* over the edges between them.
PointerNodes == {1, 2}
\* Greatest number of edges created interactively in a run.
MaxNewEdges == 1
\* Greatest number of preview lines held by the scene at once.
MaxLines == 2
\* Greatest number of "new diagram" operations in a run.
MaxNew == 1
\* Greatest number of pointer moves and zoom steps in a run.
MaxMoves == 2
\* What one pointer move may add to the pointer's position.
Deltas == {<<10, 0>>, <<-10, 5>>}
\* Half the width and half the height of the label of an edge with its
\* background, which the font decides.
LabelHalfWidth == 30
LabelHalfHeight == 8
\* Greatest number of nodes added to the sample network in a run.
MaxAdded == 1
\* Greatest number of items under a rubber band over the oldest items.
MaxBand == 3
\* The width and the height of the viewport.
ViewWidth == 800
ViewHeight == 600
\* The angles of a wheel event (QWheelEvent::angleDelta): a step up, a step
\* down, a step of a sideways wheel, and no angle.
WheelAngles == {<<0, 120>>, <<0, -120>>, <<120, 0>>, <<0, 0>>}
\* The labels typed into the dialog of "Add Node".
Labels == {"", "F"}
\* The points of the scene at which the right button is pressed: the
\* origin, which is empty at first; a point of edge D-C 22 from the origin;
\* a point of the label of edge B-D 22 from the origin; a point of node A
\* and of edge A-B; an empty point 40 from the centre of node A, and the
\* point half way between the two.
HitPoints ==
    {<<0, 0>>, <<12, 18>>, <<-22, 0>>, <<-190, -100>>, <<-200, -60>>,
     <<-200, -80>>}

\* ------------------------------------------------------- program constants
NetworkNode_DEFAULT_ZVALUE == 10
NetworkNode_SELECTED_ZVALUE == 100
NetworkEdge_DEFAULT_ZVALUE == 0
NetworkEdge_SELECTED_ZVALUE == 5

\* The ellipse of a node and the width of its outline.
NodeRadius == 25
NodePenWidth == 2
\* The width of the area in which an edge is hit, and of the preview line.
EdgeHitWidth == 16
PreviewPenWidth == 2

NULL == 0

\* testGraph: the five nodes A..E and the six edges it adds, in order.
TestNodes == <<"A", "B", "C", "D", "E">>
TestEdges == << <<1, 2>>, <<2, 3>>, <<2, 4>>, <<1, 4>>, <<4, 5>>, <<4, 3>> >>
\* The positions testGraph gives the five nodes.
TestPos == << <<-200, -100>>, <<0, -100>>, <<200, -100>>, <<-100, 100>>,
              <<100, 100>> >>

\* A point (QPointF) is a pair, a line (QLineF) a pair of points.
Origin == <<0, 0>>
NoLine == <<Origin, Origin>>
\* The scale of a view whose transform is the identity.
Unit == <<1, 1>>
Plus(p, q) == <<p[1] + q[1], p[2] + q[2]>>
Minus(p, q) == <<p[1] - q[1], p[2] - q[2]>>

\* The objects a run may create: testGraph's, once for the constructor and
\* once for every "new diagram", and the edges created by clicks.
NodeIds == 1..(Len(TestNodes) * (MaxNew + 1))
EdgeIds == 1..(Len(TestEdges) * (MaxNew + 1) + MaxNewEdges)
LineIds == 1..MaxLines

\* A scene item: a node or an edge.
N(i) == <<"n", i>>
E(j) == <<"e", j>>
IsNode(x) == x[1] = "n"
IsEdge(x) == x[1] = "e"
Id(x) == x[2]
Items == {N(i) : i \in NodeIds} \cup {E(j) : j \in EdgeIds}

VARIABLES
    nodes,              \* NetSim::nodes, QList<NetworkNode*>
    edges,              \* NetSim::edges, QList<NetworkEdge*>
    allocN,             \* number of NetworkNode objects created so far
    allocE,             \* number of NetworkEdge objects created so far
    destroyed,          \* the items that have been deleted
    scene,              \* the items the scene holds
    srcNode,            \* NetworkEdge::srcNode, by edge
    dstNode,            \* NetworkEdge::dstNode, by edge
    edgeList,           \* NetworkNode::edgeList, by node
    zValue,             \* QGraphicsItem::zValue, by item
    selected,           \* the scene's selected items
    lastSelectedItems,  \* NetSim::lastSelectedItems
    edgeSourceNode,     \* NetSim::edgeSourceNode (NULL or a node)
    isCreatingEdge,     \* NetSim::isCreatingEdge
    tempEdgeLine,       \* NetSim::tempEdgeLine (NULL or a preview line)
    lineItems,          \* the preview lines the scene holds
    pos,                \* QGraphicsItem::pos, by node
    line,               \* QGraphicsLineItem::line, by edge
    previewLine,        \* QGraphicsLineItem::line of the preview line
                        \* tempEdgeLine points to
    isPanning,          \* NetSim::isPanning
    scroll,             \* the values of the view's two scroll bars, counted
                        \* from the values that show the scene's origin at
                        \* the centre of the viewport
    scale,              \* the view's scale, a fraction <<numerator,
                        \* denominator>> in lowest terms
    nodeLabel,          \* NetworkNode::nodeLabel, by node
    cursor,             \* the pointer's position in the scene
    held,               \* what a held button has grabbed: nothing, the
                        \* item pressed, the empty space or the view (pan)
    moves,              \* number of pointer moves and zoom steps so far
    passes,             \* the runs of updateEdges the last handler made
                        \* from a node's itemChange: the node, the position
                        \* read for it and the position being set
    notice,             \* what the last handler told the user: the text of
                        \* its message box or else its last status message,
                        \* the selection summary of line 825 left aside
    lastEvent,          \* the event handled last
    deselected,         \* the items that left the selection in handling it
    ub,                 \* a handler has touched a destroyed object
    crashed             \* the process has ended on undefined behaviour

vars == <<nodes, edges, allocN, allocE, destroyed, scene, srcNode, dstNode, edgeList,
          zValue, selected, lastSelectedItems, edgeSourceNode, isCreatingEdge,
          tempEdgeLine, lineItems, pos, line, previewLine, isPanning, scroll,
          scale, nodeLabel, cursor, held, moves, passes, notice, lastEvent,
          deselected, ub, crashed>>

\* ----------------------------------------------------------------- helpers
RECURSIVE SeqOf(_)
\* The elements of a finite set in some fixed order.
SeqOf(S) ==
    IF S = {} THEN <<>>
    ELSE LET x == CHOOSE y \in S : TRUE IN <<x>> \o SeqOf(S \ {x})

RECURSIVE Perms(_)
\* Every order in which a list built from set S (QSet::values) may come.
Perms(S) ==
    IF S = {} THEN {<<>>}
    ELSE UNION {{<<x>> \o p : p \in Perms(S \ {x})} : x \in S}

Range(s) == {s[i] : i \in 1..Len(s)}

\* A removal that fills the gap with the last element of the list.
RemoveAt_swapLast(s, i) ==
    IF i + 1 = Len(s) THEN SubSeq(s, 1, i)
    ELSE SubSeq([s EXCEPT ![i + 1] = s[Len(s)]], 1, Len(s) - 1)

\* QList::removeAt(i), i counted from 0.  An index past the end is left to
\* the caller (removeAtChecked).
RemoveAt(s, i) == SubSeq(s, 1, i) \o SubSeq(s, i + 2, Len(s))

RECURSIVE IndexOf(_, _, _)
IndexOf(s, x, k) ==
    IF k > Len(s) THEN 0 ELSE IF s[k] = x THEN k ELSE IndexOf(s, x, k + 1)

\* QList::removeOne(x): the first occurrence, if any.
RemoveOne(s, x) ==
    LET k == IndexOf(s, x, 1) IN IF k = 0 THEN s ELSE RemoveAt(s, k - 1)

\* No item: a null QGraphicsItem*.
NoItem == <<"none", 0>>

\* The program's state as one record, so that a handler is a function of it.
Cur ==
    [nodes |-> nodes, edges |-> edges, allocN |-> allocN, allocE |-> allocE,
     destroyed |-> destroyed, scene |-> scene, srcNode |-> srcNode,
     dstNode |-> dstNode, edgeList |-> edgeList, zValue |-> zValue,
     selected |-> selected, lastSelectedItems |-> lastSelectedItems,
     edgeSourceNode |-> edgeSourceNode, isCreatingEdge |-> isCreatingEdge,
     tempEdgeLine |-> tempEdgeLine, lineItems |-> lineItems,
     pos |-> pos, line |-> line, previewLine |-> previewLine,
     isPanning |-> isPanning, scroll |-> scroll, scale |-> scale,
     nodeLabel |-> nodeLabel, passes |-> {},
     notice |-> "none", ub |-> FALSE, dying |-> NoItem]

\* A use of the object behind a pointer: undefined behaviour when destroyed.
Deref(r, x) == IF x \in r.destroyed THEN [r EXCEPT !.ub = TRUE] ELSE r

\* ---------------------------------------------------- scene and selection
RECURSIVE onSelectionChanged(_), SelectEndpoints(_, _), setSelected(_, _, _)

\* QGraphicsItem::setZValue.  A write to a destroyed item is lost.
setZValue(r, x, v) ==
    IF x \in r.destroyed THEN [r EXCEPT !.ub = TRUE]
    ELSE [r EXCEPT !.zValue[x] = v]

RECURSIVE SetEdgesZ(_, _, _)
\* for (NetworkEdge* edge : node->getEdgeList()) edge->setZValue(v)
SetEdgesZ(r, es, v) ==
    IF es = <<>> THEN r
    ELSE SetEdgesZ(setZValue(r, E(Head(es)), v), Tail(es), v)

\* A reset that resets a deselected node but not the edges of its edge list.
resetItem_nodeOnly(r, x) ==
    IF IsNode(x) THEN setZValue(r, x, NetworkNode_DEFAULT_ZVALUE)
    ELSE setZValue(r, x, NetworkEdge_DEFAULT_ZVALUE)

\* A reset that resets the edges of a deselected node but not the node.
resetItem_edgesOnly(r, x) ==
    IF IsNode(x)
    THEN SetEdgesZ(r, r.edgeList[Id(x)], NetworkEdge_DEFAULT_ZVALUE)
    ELSE setZValue(r, x, NetworkEdge_DEFAULT_ZVALUE)

\* Lines 842-849: one item no longer selected goes back to its default z, a
\* node together with the edges of its edge list.
resetItem(r, x) ==
    IF IsNode(x)
    THEN SetEdgesZ(setZValue(r, x, NetworkNode_DEFAULT_ZVALUE),
                   r.edgeList[Id(x)], NetworkEdge_DEFAULT_ZVALUE)
    ELSE setZValue(r, x, NetworkEdge_DEFAULT_ZVALUE)

RECURSIVE ResetZ(_, _)
\* Lines 841-850: the loop over the items to reset; the dynamic_cast reads
\* the item; for an item in its destructor both casts give null.
ResetZ(r, items) ==
    IF items = <<>> THEN r
    ELSE IF Head(items) = r.dying THEN ResetZ(r, Tail(items))
    ELSE ResetZ(resetItem(Deref(r, Head(items)), Head(items)), Tail(items))

\* A raise that raises the edges of a selected node but not the node.
raiseItem_edgesOnly(r, x) ==
    IF IsNode(x)
    THEN SetEdgesZ(r, r.edgeList[Id(x)], NetworkEdge_SELECTED_ZVALUE)
    ELSE setZValue(r, x, NetworkEdge_SELECTED_ZVALUE)

\* Lines 859-866: one selected item gets the selected z, a node together
\* with the edges of its edge list.
raiseItem(r, x) ==
    IF IsNode(x)
    THEN SetEdgesZ(setZValue(r, x, NetworkNode_SELECTED_ZVALUE),
                   r.edgeList[Id(x)], NetworkEdge_SELECTED_ZVALUE)
    ELSE setZValue(r, x, NetworkEdge_SELECTED_ZVALUE)

RECURSIVE RaiseZ(_, _)
\* Lines 858-867: the loop over the selected items.
RaiseZ(r, items) ==
    IF items = <<>> THEN r
    ELSE RaiseZ(raiseItem(Deref(r, Head(items)), Head(items)), Tail(items))

\* QGraphicsItem::setSelected on an item of the scene: a change of the
\* selected set emits selectionChanged, which runs onSelectionChanged.
setSelected(r, x, on) ==
    IF x \notin r.scene \/ (x \in r.selected) = on THEN r
    ELSE onSelectionChanged(
             [r EXCEPT !.selected = IF on THEN @ \cup {x} ELSE @ \ {x}])

\* Lines 810-813: an end node of a selected edge is selected when it is
\* non-null and in a scene.  scene() of a destroyed node reads freed
\* memory; the value it had at destruction is null.
selectEnd(r, n) ==
    IF n = NULL THEN r
    ELSE IF N(n) \in r.destroyed THEN [r EXCEPT !.ub = TRUE]
    ELSE setSelected(r, N(n), TRUE)

\* Lines 808-815: the loop over the list of selected items taken at entry.
SelectEndpoints(r, items) ==
    IF items = <<>> THEN r
    ELSE IF IsNode(Head(items)) THEN SelectEndpoints(r, Tail(items))
    ELSE SelectEndpoints(
             selectEnd(selectEnd(r, r.srcNode[Id(Head(items))]),
                       r.dstNode[Id(Head(items))]),
             Tail(items))

\* Lines 817-870: the items of lastSelectedItems that are not selected are
\* reset; with something selected, the selected items are raised and
\* lastSelectedItems becomes the selected items.
updateZValues(r) ==
    IF r.selected = {}
    THEN ResetZ(r, SeqOf(r.lastSelectedItems \ r.selected))
    ELSE [RaiseZ(ResetZ(r, SeqOf(r.lastSelectedItems \ r.selected)),
                 SeqOf(r.selected))
             EXCEPT !.lastSelectedItems = r.selected]

\* NetSim::onSelectionChanged.
onSelectionChanged(r) == updateZValues(SelectEndpoints(r, SeqOf(r.selected)))

\* QGraphicsScene::clearSelection: one signal when something was selected.
clearSelection(r) ==
    IF r.selected = {} THEN r
    ELSE onSelectionChanged([r EXCEPT !.selected = {}])

\* A replacement of the selected set by S in one step (a press on an
\* unselected item, a release on a selected one, QGraphicsScene::
\* setSelectionArea): one signal when the set changes.
replaceSelection(r, S) ==
    IF r.selected = S THEN r
    ELSE onSelectionChanged([r EXCEPT !.selected = S])

\* QGraphicsScene::removeItem on an item that is not destroyed.  An item
\* that is not in the scene is left alone; removing a selected item emits
\* selectionChanged.
removeLiveItem(r, x) ==
    IF x \notin r.scene THEN r
    ELSE IF x \in r.selected
    THEN onSelectionChanged(
             [r EXCEPT !.scene = @ \ {x}, !.selected = @ \ {x}])
    ELSE [r EXCEPT !.scene = @ \ {x}]

\* QGraphicsScene::removeItem.  A destroyed item is read (undefined); its
\* scene() was null.
removeItem(r, x) == removeLiveItem(Deref(r, x), x)

\* delete item.  A second delete of the same object is undefined.
deleteItem(r, x) ==
    IF x \in r.destroyed THEN [r EXCEPT !.ub = TRUE]
    ELSE [r EXCEPT !.destroyed = @ \cup {x}, !.scene = @ \ {x},
                   !.selected = @ \ {x}]

\* ------------------------------------------------------ building the graph
\* NetSim::AddNodeAt with the NetworkNode constructor (lines 9-21): the
\* node gets the label whatever it is, and the status bar says so.
AddNodeAt(r, position, label) ==
    LET n == r.allocN + 1 IN
    [r EXCEPT !.allocN = n,
              !.zValue[N(n)] = NetworkNode_DEFAULT_ZVALUE,
              !.pos[n] = position,
              !.nodeLabel[n] = label,
              !.edgeList[n] = <<>>,
              !.scene = @ \cup {N(n)},
              !.nodes = Append(@, n),
              !.notice = "Added node: " \o label]

\* NetworkEdge::updatePosition (lines 257-266) on an edge that is not
\* destroyed: with both nodes non-null the line runs from the position of
\* the source node to that of the destination node.  pos() of a destroyed
\* node reads freed memory.
updatePosition(r, e) ==
    IF r.srcNode[e] = NULL \/ r.dstNode[e] = NULL THEN r
    ELSE [Deref(Deref(r, N(r.srcNode[e])), N(r.dstNode[e]))
             EXCEPT !.line[e] = <<r.pos[r.srcNode[e]], r.pos[r.dstNode[e]]>>]

\* new NetworkEdge(source, destination, ...): lines 81-99.  With a null end
\* the constructor returns before it sets the z value; otherwise it ends
\* with updatePosition.
NewEdge(r, s, d) ==
    IF s = NULL \/ d = NULL
    THEN [r EXCEPT !.allocE = @ + 1,
                   !.srcNode[r.allocE + 1] = s, !.dstNode[r.allocE + 1] = d]
    ELSE updatePosition([r EXCEPT !.allocE = @ + 1,
                                  !.srcNode[r.allocE + 1] = s,
                                  !.dstNode[r.allocE + 1] = d,
                                  !.zValue[E(r.allocE + 1)] =
                                      NetworkEdge_DEFAULT_ZVALUE],
                        r.allocE + 1)

\* NetworkNode::addEdge(NetworkEdge*).  A write through a null pointer or to
\* a destroyed node is undefined, and lost.
addEdge(r, n, e) ==
    IF n = NULL \/ N(n) \in r.destroyed THEN [r EXCEPT !.ub = TRUE]
    ELSE [r EXCEPT !.edgeList[n] = Append(@, e)]

\* NetworkNode::deleteEdge(NetworkEdge*).
deleteEdge(r, n, e) ==
    IF n = NULL \/ N(n) \in r.destroyed THEN [r EXCEPT !.ub = TRUE]
    ELSE [r EXCEPT !.edgeList[n] = RemoveOne(@, e)]

\* Lines 690-695: the new edge e goes into the edge lists of both nodes,
\* into the scene and into the list edges.
registerEdge(r, s, d, e) ==
    [addEdge(addEdge(r, s, e), d, e)
        EXCEPT !.scene = @ \cup {E(e)}, !.edges = Append(@, e),
               !.notice = "Edge created successfully."]

\* NetSim::AddEdge: no test of sourceNode against destNode.
AddEdge(r, s, d) ==
    IF s = NULL \/ d = NULL THEN r
    ELSE registerEdge(NewEdge(r, s, d), s, d, r.allocE + 1)

RECURSIVE AddNodes(_, _)
\* The AddNodeAt calls of testGraph, for its nodes from the k-th on.
AddNodes(r, k) ==
    IF k > Len(TestNodes) THEN r
    ELSE AddNodes(AddNodeAt(r, TestPos[k], TestNodes[k]), k + 1)

RECURSIVE AddEdges(_, _, _)
\* The AddEdge calls of testGraph; base is the number of nodes created
\* before node1.
AddEdges(r, es, base) ==
    IF es = <<>> THEN r
    ELSE AddEdges(AddEdge(r, base + Head(es)[1], base + Head(es)[2]),
                  Tail(es), base)

\* NetSim::testGraph: five nodes, then six edges.
testGraph(r) ==
    [AddEdges(AddNodes(r, 1), TestEdges, r.allocN)
        EXCEPT !.notice = "Sample network created with 5 nodes and 4 edges"]

\* The members as the constructor's initialisers leave them (lines 273-275
\* and the header's defaults), with an empty scene.
Constructed ==
    [nodes |-> <<>>, edges |-> <<>>, allocN |-> 0, allocE |-> 0,
     destroyed |-> {}, scene |-> {},
     srcNode |-> [j \in EdgeIds |-> NULL],
     dstNode |-> [j \in EdgeIds |-> NULL],
     edgeList |-> [i \in NodeIds |-> <<>>],
     zValue |-> [x \in Items |-> 0],
     selected |-> {}, lastSelectedItems |-> {},
     edgeSourceNode |-> NULL, isCreatingEdge |-> FALSE,
     tempEdgeLine |-> NULL, lineItems |-> {},
     pos |-> [i \in NodeIds |-> Origin],
     line |-> [j \in EdgeIds |-> NoLine],
     previewLine |-> NoLine,
     isPanning |-> FALSE, scroll |-> Origin, scale |-> Unit,
     nodeLabel |-> [i \in NodeIds |-> ""], passes |-> {},
     notice |-> "none", ub |-> FALSE, dying |-> NoItem]

\* ----------------------------------------------------- edge-creation mode
\* A cleanupEdgeCreation that forgets to reset edgeSourceNode.
cleanupEdgeCreation_keepsSource(r) ==
    [r EXCEPT !.lineItems = IF r.tempEdgeLine # NULL
                            THEN @ \ {r.tempEdgeLine} ELSE @,
              !.tempEdgeLine = NULL,
              !.isCreatingEdge = FALSE]

\* NetSim::cleanupEdgeCreation.
cleanupEdgeCreation(r) ==
    [r EXCEPT !.lineItems = IF r.tempEdgeLine # NULL
                            THEN @ \ {r.tempEdgeLine} ELSE @,
              !.previewLine = NoLine,
              !.tempEdgeLine = NULL,
              !.edgeSourceNode = NULL,
              !.isCreatingEdge = FALSE]

\* An "Add Edge" of the menu bar that starts the creation of an edge without
\* looking for a source node.
onAddEdge_unguarded(r) ==
    [r EXCEPT !.isCreatingEdge = TRUE,
              !.notice = "Click on destination node for the edge..."]

\* NetSim::onAddEdge (lines 672-682), "Add Edge" of the menu bar: without a
\* source node a message box tells the user to right-click a node first.
onAddEdge(r) ==
    IF r.edgeSourceNode = NULL
    THEN [r EXCEPT !.notice = "Please right-click on a source node first"]
    ELSE [r EXCEPT !.isCreatingEdge = TRUE,
                   !.notice = "Click on destination node for the edge..."]

\* Lines 571-575: the new edge e goes into the scene and into the list
\* edges, and the creation of the edge ends.
appendCreatedEdge(r, e) ==
    cleanupEdgeCreation(
        [r EXCEPT !.scene = @ \cup {E(e)}, !.edges = Append(@, e),
                  !.notice = "Edge created successfully."])

\* Lines 577-579: the warning, and the creation of the edge ends.
rejectSelfLoop(r) ==
    cleanupEdgeCreation(
        [r EXCEPT !.notice = "Cannot create an edge from a node to itself."])

\* A press that builds the edge from the pressed node to the source node.
pressCreatingEdge_reversed(r, destNode) ==
    IF ~r.isCreatingEdge THEN r
    ELSE IF destNode # NULL /\ destNode # r.edgeSourceNode
    THEN appendCreatedEdge(NewEdge(r, destNode, r.edgeSourceNode),
                           r.allocE + 1)
    ELSE IF destNode = r.edgeSourceNode THEN rejectSelfLoop(r)
    ELSE r

\* A press whose self-loop branch warns but forgets to leave the mode.
pressCreatingEdge_warnsOnly(r, destNode) ==
    IF ~r.isCreatingEdge THEN r
    ELSE IF destNode # NULL /\ destNode # r.edgeSourceNode
    THEN appendCreatedEdge(NewEdge(r, r.edgeSourceNode, destNode),
                           r.allocE + 1)
    ELSE IF destNode = r.edgeSourceNode
    THEN [r EXCEPT !.notice = "Cannot create an edge from a node to itself."]
    ELSE r

\* A press that cancels the creation when no node is under the pointer.
pressCreatingEdge_cancelsOnEmpty(r, destNode) ==
    IF ~r.isCreatingEdge THEN r
    ELSE IF destNode # NULL /\ destNode # r.edgeSourceNode
    THEN appendCreatedEdge(NewEdge(r, r.edgeSourceNode, destNode),
                           r.allocE + 1)
    ELSE IF destNode = r.edgeSourceNode THEN rejectSelfLoop(r)
    ELSE cleanupEdgeCreation(r)

\* Lines 562-581: the left press while an edge is being created; destNode
\* is what getNodeAt gave for the press (NULL for none).
pressCreatingEdge(r, destNode) ==
    IF ~r.isCreatingEdge THEN r
    ELSE IF destNode # NULL /\ destNode # r.edgeSourceNode
    THEN appendCreatedEdge(NewEdge(r, r.edgeSourceNode, destNode),
                           r.allocE + 1)
    ELSE IF destNode = r.edgeSourceNode THEN rejectSelfLoop(r)
    ELSE r

\* Lines 609-613: a pointer move that is not a pan sets the preview line
\* to run from the position of the source node to the pointer's position
\* in the scene.
moveCreatingEdge(r, scenePos) ==
    IF r.isCreatingEdge /\ r.edgeSourceNode # NULL /\ r.tempEdgeLine # NULL
    THEN [Deref(r, N(r.edgeSourceNode))
             EXCEPT !.previewLine = <<r.pos[r.edgeSourceNode], scenePos>>]
    ELSE r

\* NetSim::keyPressEvent for the escape key.
keyPressEscape(r) ==
    IF r.isCreatingEdge
    THEN [cleanupEdgeCreation(r) EXCEPT !.notice = "Edge creation cancelled."]
    ELSE r

\* ------------------------------------------------------------ context menu
\* Lines 408-416: an unselected item under the pointer becomes the selection.
menuSelect(r, itemAtPos) ==
    IF itemAtPos # NoItem /\ itemAtPos \notin r.selected
    THEN onSelectionChanged(setSelected(clearSelection(r), itemAtPos, TRUE))
    ELSE r

\* Lines 485-488: the edge under the pointer becomes the selection.
menuSelectEdge(r, e) ==
    onSelectionChanged(setSelected(clearSelection(r), E(e), TRUE))

\* showContextMenu up to menu.exec: target is the item under the pointer, a
\* node (clickedNode), an edge (clickedEdge) or NoItem.
showContextMenu(r, target) ==
    IF IsNode(target) THEN menuSelect(r, target)
    ELSE IF IsEdge(target)
    THEN menuSelectEdge(menuSelect(r, target), Id(target))
    ELSE clearSelection(menuSelect(r, target))

\* new QGraphicsLineItem(): a line that is not in the scene.
NewLine(r) ==
    CHOOSE k \in LineIds \ r.lineItems :
        \A m \in LineIds \ r.lineItems : k <= m

\* Lines 429-439, "Add edge": a new preview line replaces the pointer to
\* the one before, which stays in the scene.
menuAddEdge(r, targetNode) ==
    [r EXCEPT !.edgeSourceNode = targetNode,
              !.isCreatingEdge = TRUE,
              !.tempEdgeLine = NewLine(r),
              !.previewLine = NoLine,
              !.lineItems = @ \cup {NewLine(r)}]

\* Lines 449-451: the edge at index i of the list edges (i counts from 1
\* here) is taken from the scene, deleted and taken from the list.
removeEdgeAt(r, i) ==
    [deleteItem(removeItem(r, E(r.edges[i])), E(r.edges[i]))
        EXCEPT !.edges = RemoveAt(@, i - 1)]

\* Line 448: edge e starts or ends at targetNode.
connectedTo(r, e, targetNode) ==
    r.srcNode[e] = targetNode \/ r.dstNode[e] = targetNode

RECURSIVE removeConnectedEdges(_, _, _)
\* Lines 446-453: from the last edge of the list to the first, every edge
\* that starts or ends at targetNode is removed; the test reads the edge.
removeConnectedEdges(r, targetNode, i) ==
    IF i = 0 THEN r
    ELSE IF connectedTo(r, r.edges[i], targetNode)
    THEN removeConnectedEdges(removeEdgeAt(Deref(r, E(r.edges[i])), i),
                              targetNode, i - 1)
    ELSE removeConnectedEdges(Deref(r, E(r.edges[i])), targetNode, i - 1)

\* Lines 456-458: the node leaves the list nodes and the scene and is
\* deleted.
removeNode(r, n) ==
    deleteItem(removeItem([r EXCEPT !.nodes = RemoveOne(@, n)], N(n)), N(n))

\* Lines 442-459, "Delete Node".
menuDeleteNode(r, targetNode) ==
    removeNode(removeConnectedEdges(r, targetNode, Len(r.edges)), targetNode)

\* Lines 514-518 on an edge that has been read: the edge leaves the edge
\* lists of its end nodes, the list edges and the scene, and is deleted.
removeEdge(r, e) ==
    deleteItem(
        removeItem(
            [deleteEdge(deleteEdge(r, r.srcNode[e], e), r.dstNode[e], e)
                EXCEPT !.edges = RemoveOne(@, e)],
            E(e)),
        E(e))

\* Lines 512-519, "Delete Edge"; also the edge branch of onDeleteSelected
\* (lines 732-738), which is the same code.
menuDeleteEdge(r, e) == removeEdge(Deref(r, E(e)), e)

\* --------------------------------------------------------- delete selected
\* QList::removeAt(i) with i past the end: Qt 5 ignores it, Qt 6 asserts and
\* is undefined in a release build.
removeAtChecked(r, i) ==
    IF i < Len(r.edges) THEN [r EXCEPT !.edges = RemoveAt(@, i)]
    ELSE [r EXCEPT !.ub = TRUE]

RECURSIVE removeNodeEdges(_, _, _)
\* Lines 720-725: nodeEdges is the node's edge list; for i from its last
\* index to 0 the edge nodeEdges[i] is taken from the scene and deleted, and
\* the element at index i of the list edges is removed (i counts from 1
\* here).
removeNodeEdges(r, nodeEdges, i) ==
    IF i = 0 THEN r
    ELSE removeNodeEdges(
             removeAtChecked(
                 deleteItem(removeItem(r, E(nodeEdges[i])), E(nodeEdges[i])),
                 i - 1),
             nodeEdges, i - 1)

\* Lines 717-730 on a node that has been read: one selected node.
deleteSelectedNode(r, n) ==
    removeNode(removeNodeEdges(r, r.edgeList[n], Len(r.edgeList[n])), n)

\* Lines 717-738: one selected item.
deleteSelectedItem(r, x) ==
    IF IsNode(x) THEN deleteSelectedNode(r, Id(x)) ELSE removeEdge(r, Id(x))

RECURSIVE deleteItems(_, _)
\* Lines 715-739: the loop over the list of selected items taken at entry.
\* The dynamic_cast reads the item.
deleteItems(r, items) ==
    IF items = <<>> THEN r
    ELSE deleteItems(deleteSelectedItem(Deref(r, Head(items)), Head(items)),
                     Tail(items))

\* Lines 707-712: the items of lastSelectedItems that are not selected are
\* removed from it inside the loop that walks it.
pruneLastSelected(r, selectedItems) ==
    IF r.lastSelectedItems \subseteq selectedItems THEN r
    ELSE [r EXCEPT !.lastSelectedItems = @ \cap selectedItems, !.ub = TRUE]

\* A delete-selected that forgets the selection history when nothing is
\* selected.
onDeleteSelected_forgets(r, order) ==
    IF order = <<>>
    THEN [r EXCEPT !.notice = "No items selected.", !.lastSelectedItems = {}]
    ELSE [deleteItems(pruneLastSelected(r, Range(order)), order)
             EXCEPT !.notice = "Deleted item(s)"]

\* NetSim::onDeleteSelected; order is the list scene->selectedItems() gave.
onDeleteSelected(r, order) ==
    IF order = <<>> THEN [r EXCEPT !.notice = "No items selected."]
    ELSE [deleteItems(pruneLastSelected(r, Range(order)), order)
             EXCEPT !.notice = "Deleted item(s)"]

\* ------------------------------------------------------------ new diagram
\* The place of item x of the scene in the order of creation: testGraph's
\* nodes, then its edges, then the edges created by clicks.
Created(x) == IF IsNode(x) THEN Id(x) ELSE Cardinality(NodeIds) + Id(x)

\* The scene keeps its top-level items in the order of insertion until it
\* sorts them for painting, by z value and then by insertion.
Place(r, x, byZ) ==
    (IF byZ THEN r.zValue[x] * (Cardinality(Items) + 1) ELSE 0) + Created(x)

RECURSIVE ClearOrder(_, _, _)
\* The items S in the order in which QGraphicsScene::clear deletes them.
ClearOrder(r, S, byZ) ==
    IF S = {} THEN <<>>
    ELSE LET x == CHOOSE y \in S :
                      \A z \in S : Place(r, y, byZ) <= Place(r, z, byZ)
         IN <<x>> \o ClearOrder(r, S \ {x}, byZ)

\* delete of an item that is in the scene, as QGraphicsScene::clear does
\* it: the item's destructor takes it from the scene, and when the item was
\* selected emits selectionChanged while the item is in its destructor.
deleteInScene(r, x) ==
    IF x \in r.selected
    THEN [onSelectionChanged([r EXCEPT !.scene = @ \ {x},
                                       !.selected = @ \ {x},
                                       !.dying = x])
             EXCEPT !.destroyed = @ \cup {x}, !.dying = NoItem]
    ELSE [r EXCEPT !.scene = @ \ {x}, !.destroyed = @ \cup {x}]

RECURSIVE deleteAll(_, _)
deleteAll(r, items) ==
    IF items = <<>> THEN r
    ELSE deleteAll(deleteInScene(r, Head(items)), Tail(items))

\* QGraphicsScene::clear: every item of the scene is deleted, the preview
\* lines too.
sceneClear(r, byZ) ==
    [deleteAll(r, ClearOrder(r, r.scene, byZ))
        EXCEPT !.lineItems = {}, !.previewLine = NoLine]

\* Lines 360-362: scene->clear(); nodes.clear(); edges.clear().
clearAll(r, byZ) == [sceneClear(r, byZ) EXCEPT !.nodes = <<>>, !.edges = <<>>]

\* Lines 358-368, the actionNew lambda.
actionNew(r, byZ) ==
    [testGraph(clearAll(cleanupEdgeCreation(r), byZ))
        EXCEPT !.notice = "New network created."]

\* ------------------------------------------------------------- hit testing
Abs(x) == IF x < 0 THEN -x ELSE x
Dot(v, w) == v[1] * w[1] + v[2] * w[2]
Cross(v, w) == v[1] * w[2] - v[2] * w[1]
RECURSIVE SqrtIn(_, _, _)
\* The square root of x, rounded down, which is known to be in lo..hi.
SqrtIn(x, lo, hi) ==
    IF lo >= hi THEN lo
    ELSE IF ((lo + hi + 1) \div 2) * ((lo + hi + 1) \div 2) <= x
    THEN SqrtIn(x, (lo + hi + 1) \div 2, hi)
    ELSE SqrtIn(x, lo, ((lo + hi + 1) \div 2) - 1)

\* The length of vector v, rounded down.
Length(v) == SqrtIn(Dot(v, v), 0, Abs(v[1]) + Abs(v[2]))

\* Point p is within the stroke of the given width along the line from a
\* to b, whose caps are flat.  A null line has an empty stroke.
InStroke(a, b, p, width) ==
    /\ a # b
    /\ 0 <= Dot(Minus(p, a), Minus(b, a))
    /\ Dot(Minus(p, a), Minus(b, a)) <= Dot(Minus(b, a), Minus(b, a))
    /\ 2 * Abs(Cross(Minus(b, a), Minus(p, a))) <= width * Length(Minus(b, a))

\* QGraphicsEllipseItem::shape of a node (line 10 with the pen of line 14):
\* the disc of the ellipse and of its outline, about the node's position.
nodeContains(r, n, p) ==
    4 * Dot(Minus(p, r.pos[n]), Minus(p, r.pos[n]))
        <= (2 * NodeRadius + NodePenWidth) * (2 * NodeRadius + NodePenWidth)

\* NetworkEdge::shape (lines 184-193): a stroke 16 wide along the line.
edgeContains(r, e, p) ==
    InStroke(r.line[e][1], r.line[e][2], p, EdgeHitWidth)

\* The label and its background (lines 210-255), children of an edge with
\* both nodes: a patch about the middle of the line.
labelContains(r, e, p) ==
    /\ r.srcNode[e] # NULL /\ r.dstNode[e] # NULL
    /\ Abs(2 * p[1] - r.line[e][1][1] - r.line[e][2][1]) <= 2 * LabelHalfWidth
    /\ Abs(2 * p[2] - r.line[e][1][2] - r.line[e][2][2]) <= 2 * LabelHalfHeight

\* The nodes and edges of the scene with something of theirs at point p.
HitAt(r, p) ==
    {x \in r.scene :
        IF IsNode(x) THEN nodeContains(r, Id(x), p)
        ELSE edgeContains(r, Id(x), p) \/ labelContains(r, Id(x), p)}

\* The item of S that the scene stacks highest: by z value, and for equal z
\* values the item inserted last.
Topmost(r, S) ==
    CHOOSE x \in S : \A y \in S : Place(r, y, TRUE) <= Place(r, x, TRUE)

\* The preview line is at point p: its stroke is as wide as its pen (line
\* 436).
previewAt(r, p) ==
    /\ r.tempEdgeLine # NULL
    /\ InStroke(r.previewLine[1], r.previewLine[2], p, PreviewPenWidth)

\* An item that cannot be selected: the label of an edge or its background,
\* or the preview line.
Label(e) == <<"label", e>>
PreviewItem == <<"line", 0>>

\* The part of edge e that is on top at p: its label, a child, when p is on
\* it.
TopPart(r, e, p) == IF labelContains(r, e, p) THEN Label(e) ELSE E(e)

\* Lines 389-405: the first item at p, from the top, that is an edge or a
\* child of an edge; NULL for none.
clickedEdge(r, p) ==
    IF {x \in HitAt(r, p) : IsEdge(x)} = {} THEN NULL
    ELSE Id(Topmost(r, {x \in HitAt(r, p) : IsEdge(x)}))

\* A topmost item that is looked for among the edges first.
itemAtPos_edgeFirst(r, p) ==
    IF clickedEdge(r, p) # NULL THEN TopPart(r, clickedEdge(r, p), p)
    ELSE IF HitAt(r, p) = {}
    THEN IF previewAt(r, p) THEN PreviewItem ELSE NoItem
    ELSE Topmost(r, HitAt(r, p))

\* scene->items(scenePos).first() (lines 383-387): the topmost item at p,
\* or none.  The preview line has the z value of a selected edge and is
\* newer than every edge, so it is below the nodes and above the edges.
itemAtPos(r, p) ==
    IF HitAt(r, p) = {}
    THEN IF previewAt(r, p) THEN PreviewItem ELSE NoItem
    ELSE IF IsNode(Topmost(r, HitAt(r, p))) THEN Topmost(r, HitAt(r, p))
    ELSE IF previewAt(r, p) THEN PreviewItem
    ELSE TopPart(r, Id(Topmost(r, HitAt(r, p))), p)

\* The nodes of the scene whose shape contains p.
NodesAt(r, p) == {n \in NodeIds : N(n) \in r.scene /\ nodeContains(r, n, p)}

\* NetSim::getNodeAt (lines 887-913): the items about p are sorted by z
\* value with std::sort, which may leave items of equal z value in any
\* order, and the first node of the sorted list whose shape contains p is
\* the answer.  The set of the answers the sort allows; NULL when no node
\* contains p.
getNodeAt(r, p) ==
    IF NodesAt(r, p) = {} THEN {NULL}
    ELSE {n \in NodesAt(r, p) :
             \A m \in NodesAt(r, p) : r.zValue[N(m)] <= r.zValue[N(n)]}

\* showContextMenu up to menu.exec (lines 374-416, 484-488, 521-522) for a
\* right click at scenePos, clickedNode being getNodeAt's answer: the
\* topmost item becomes the selection if it can; the menu is the node's
\* when there is a node, else the edge's, which selects the edge, else the
\* menu of the empty space, which clears the selection.
showContextMenuAt(r, scenePos, clickedNode) ==
    IF clickedNode # NULL THEN menuSelect(r, itemAtPos(r, scenePos))
    ELSE IF clickedEdge(r, scenePos) # NULL
    THEN menuSelectEdge(menuSelect(r, itemAtPos(r, scenePos)),
                        clickedEdge(r, scenePos))
    ELSE clearSelection(menuSelect(r, itemAtPos(r, scenePos)))

\* The menu showContextMenu offers.
menuKind(r, scenePos, clickedNode) ==
    IF clickedNode # NULL THEN "node menu"
    ELSE IF clickedEdge(r, scenePos) # NULL THEN "edge menu"
    ELSE "empty-space menu"

\* mapToScene of the centre of the viewport (lines 655-656).
viewCenter(r) ==
    <<(r.scroll[1] * r.scale[2]) \div r.scale[1],
      (r.scroll[2] * r.scale[2]) \div r.scale[1]>>

\* NetSim::onAddNode (lines 649-660): ok and label are what the input
\* dialog gave.  Without ok or with an empty label nothing is done and
\* nothing is said.
onAddNode(r, ok, label) ==
    IF ok /\ label # "" THEN AddNodeAt(r, viewCenter(r), label) ELSE r

\* Lines 525-533, "Add Node" of the menu of the empty space: the label is
\* the default argument of AddNodeAt, the empty string.
menuAddNode(r, targetPos) == AddNodeAt(r, targetPos, "")

\* ---------------------------------------------------------------- the view
RECURSIVE Gcd(_, _)
Gcd(a, b) == IF b = 0 THEN a ELSE Gcd(b, a % b)

\* The fraction n / d in lowest terms.
Frac(n, d) == <<n \div Gcd(n, d), d \div Gcd(n, d)>>
Times(f, g) == Frac(f[1] * g[1], f[2] * g[2])

\* handleZoom's zoomFactor, 1.15 (line 746).
zoomFactor == <<23, 20>>

\* QGraphicsView::scale(factor, factor) with the anchor the constructor
\* sets (line 296): the scale is multiplied by the factor, and the view
\* scrolls so that the point anchor of the scene stays where it is in the
\* viewport.  The scroll bars hold whole numbers.
scaleView(r, factor, anchor) ==
    [r EXCEPT
        !.scale = Times(@, factor),
        !.scroll =
            <<@[1] + (anchor[1] * r.scale[1] * (factor[1] - factor[2]))
                         \div (r.scale[2] * factor[2]),
              @[2] + (anchor[2] * r.scale[1] * (factor[1] - factor[2]))
                         \div (r.scale[2] * factor[2])>>]

\* A zoom whose step out is the one of the action Zoom Out.
handleZoom_outByAction(r, numDegrees, under) ==
    IF numDegrees = Origin THEN scaleView(r, Unit, under)
    ELSE IF numDegrees[2] > 0 THEN scaleView(r, zoomFactor, under)
    ELSE scaleView(r, <<5, 6>>, under)

\* NetSim::handleZoom (lines 745-766) for a wheel event with the angle
\* numDegrees, the pointer over point under of the scene: an angle that is
\* not null zooms in when its vertical part is positive and zooms out
\* otherwise, by 1.0 / zoomFactor; a null angle scales by 1.
handleZoom(r, numDegrees, under) ==
    IF numDegrees = Origin THEN scaleView(r, Unit, under)
    ELSE IF numDegrees[2] > 0 THEN scaleView(r, zoomFactor, under)
    ELSE scaleView(r, <<zoomFactor[2], zoomFactor[1]>>, under)

\* eventFilter for a wheel event on the viewport (lines 629-634).
wheelEvent(r, numDegrees, under) ==
    handleZoom([r EXCEPT !.notice = "Zooming with wheel"], numDegrees, under)

\* NetSim::onZoomIn and NetSim::onZoomOut (lines 769-778), which scale by
\* 1.2, that is 6/5, and by 1 / 1.2; anchor is the
\* point under the pointer when the pointer is over the view, else the
\* point at the centre of the view.
onZoomIn(r, anchor) ==
    [scaleView(r, <<6, 5>>, anchor) EXCEPT !.notice = "Zoomed in"]
onZoomOut(r, anchor) ==
    [scaleView(r, <<5, 6>>, anchor)
        EXCEPT !.notice = "Zoomed out"]

\* The corners of the bounding rectangles of the items of the scene: of a
\* node, its ellipse with half the width of its outline; of an edge, the
\* ends of its stroke and its label; of the preview line, its two ends
\* unless it is a null line.
Box(c, hw, hh) ==
    {<<c[1] - hw, c[2] - hh>>, <<c[1] + hw, c[2] + hh>>}
ItemCorners(r, x) ==
    IF IsNode(x)
    THEN Box(r.pos[Id(x)], NodeRadius + NodePenWidth \div 2,
             NodeRadius + NodePenWidth \div 2)
    ELSE Box(r.line[Id(x)][1], EdgeHitWidth \div 2, EdgeHitWidth \div 2)
         \cup Box(r.line[Id(x)][2], EdgeHitWidth \div 2, EdgeHitWidth \div 2)
         \cup (IF r.srcNode[Id(x)] # NULL /\ r.dstNode[Id(x)] # NULL
               THEN Box(<<(r.line[Id(x)][1][1] + r.line[Id(x)][2][1]) \div 2,
                          (r.line[Id(x)][1][2] + r.line[Id(x)][2][2]) \div 2>>,
                        LabelHalfWidth, LabelHalfHeight)
               ELSE {})
Corners(r) ==
    UNION {ItemCorners(r, x) : x \in r.scene}
    \cup (IF r.tempEdgeLine # NULL /\ r.previewLine[1] # r.previewLine[2]
          THEN Box(r.previewLine[1], PreviewPenWidth \div 2,
                   PreviewPenWidth \div 2)
               \cup Box(r.previewLine[2], PreviewPenWidth \div 2,
                        PreviewPenWidth \div 2)
          ELSE {})

Least(S) == CHOOSE a \in S : \A b \in S : a <= b
Greatest(S) == CHOOSE a \in S : \A b \in S : b <= a

\* scene->itemsBoundingRect() (line 786) as <<left, top, right, bottom>>,
\* after itemsRect.adjust(-100, -100, 100, 100) (line 789); C is the set of
\* the corners, which is not empty.
itemsBoundingRect(C) ==
    <<Least({c[1] : c \in C}) - 100, Least({c[2] : c \in C}) - 100,
      Greatest({c[1] : c \in C}) + 100, Greatest({c[2] : c \in C}) + 100>>

\* QGraphicsView::centerOn(point) on a view of scale s.
centerOn(r, point) ==
    [r EXCEPT !.scroll = <<(point[1] * r.scale[1]) \div r.scale[2],
                           (point[2] * r.scale[1]) \div r.scale[2]>>]

\* QGraphicsView::fitInView(rect, Qt::KeepAspectRatio) (line 790) on a view
\* that has the unit scale: the greatest scale at which the rectangle fits
\* into the viewport less a margin of 2 on each side, centred on the middle
\* of the rectangle.
fitInView(r, rect) ==
    centerOn(
        [r EXCEPT !.scale =
            IF (ViewWidth - 4) * (rect[4] - rect[2])
                   <= (ViewHeight - 4) * (rect[3] - rect[1])
            THEN Frac(ViewWidth - 4, rect[3] - rect[1])
            ELSE Frac(ViewHeight - 4, rect[4] - rect[2])],
        <<(rect[1] + rect[3]) \div 2, (rect[2] + rect[4]) \div 2>>)

\* A reset that leaves the transform as it is.
resetTransform_keeps(r) == r

\* QGraphicsView::resetTransform (line 783).
resetTransform(r) == [r EXCEPT !.scale = Unit]

\* NetSim::onResetView (lines 782-800): the transform is reset; a scene
\* with items whose bounding rectangle is not empty is fitted into the
\* view with 100 about it; otherwise the view is centred on the origin.
onResetView(r) ==
    [(IF Corners(r) # {}
      THEN fitInView(resetTransform(r),
                     itemsBoundingRect(Corners(r)))
      ELSE centerOn(resetTransform(r), Origin))
        EXCEPT !.notice = "View reset"]

\* ------------------------------------------------------- moving the nodes
RECURSIVE UpdateAll(_, _)
\* Lines 879-883: updatePosition on every edge of the list; a call on a
\* destroyed edge is undefined.
UpdateAll(r, es) ==
    IF es = <<>> THEN r
    ELSE IF E(Head(es)) \in r.destroyed
    THEN UpdateAll([r EXCEPT !.ub = TRUE], Tail(es))
    ELSE UpdateAll(updatePosition(r, Head(es)), Tail(es))

\* NetSim::updateEdges.
updateEdges(r) == UpdateAll(r, r.edges)

\* NetworkNode::itemChange for ItemPositionChange or ItemPositionHasChanged
\* (lines 51-57): it emits scene()->changed, which runs updateEdges (lines
\* 308-310); target is the position being set.  scene() of a node in no
\* scene is null.
itemChange(r, n, target) ==
    IF N(n) \notin r.scene THEN [r EXCEPT !.ub = TRUE]
    ELSE updateEdges([r EXCEPT !.passes = @ \cup {<<n, r.pos[n], target>>}])

\* QGraphicsItem::setPos on a node, which has ItemSendsGeometryChanges (line
\* 16): itemChange(ItemPositionChange) before the position is set,
\* itemChange(ItemPositionHasChanged) after it; nothing for the position
\* the node has already.
setPos(r, n, p) ==
    IF N(n) \in r.destroyed THEN [r EXCEPT !.ub = TRUE]
    ELSE IF r.pos[n] = p THEN r
    ELSE itemChange([itemChange(r, n, p) EXCEPT !.pos[n] = p], n, p)

RECURSIVE MoveNodes(_, _, _)
\* Lines 129-131: node->setPos(node->pos() + delta) for the nodes to move.
MoveNodes(r, ns, delta) ==
    IF ns = <<>> THEN r
    ELSE MoveNodes(setPos(r, Head(ns), Plus(r.pos[Head(ns)], delta)),
                   Tail(ns), delta)

\* The selected nodes and the selected edges.
SelectedNodes(r) == {Id(x) : x \in {y \in r.selected : IsNode(y)}}
SelectedEdges(r) == {Id(x) : x \in {y \in r.selected : IsEdge(y)}}

\* Lines 117-127: the set of the selected nodes and of the non-null end
\* nodes of the selected edges.
nodesToMove(r) ==
    (SelectedNodes(r)
        \cup {r.srcNode[e] : e \in SelectedEdges(r)}
        \cup {r.dstNode[e] : e \in SelectedEdges(r)}) \ {NULL}

RECURSIVE UpdateEach(_, _)
\* Lines 133-138: updatePosition on the selected edges.
UpdateEach(r, es) ==
    IF es = <<>> THEN r
    ELSE UpdateEach(updatePosition(r, Head(es)), Tail(es))

RECURSIVE EndsOf(_, _)
\* The end nodes of the edges es, edge by edge.
EndsOf(r, es) ==
    IF es = <<>> THEN <<>>
    ELSE <<r.srcNode[Head(es)], r.dstNode[Head(es)]>> \o EndsOf(r, Tail(es))

\* A mouseMoveEvent that collects the nodes to move in a list: a node moves
\* once for every selected item that names it.
edgeMouseMove_noSet(r, e, delta) ==
    UpdateEach(MoveNodes(r, SeqOf(SelectedNodes(r))
                                \o EndsOf(r, SeqOf(SelectedEdges(r))),
                         delta),
               SeqOf(SelectedEdges(r)))

\* NetworkEdge::mouseMoveEvent of edge e, on which the left button was
\* pressed (isDragging), for a pointer move by delta.  With a null end the
\* event goes to QGraphicsLineItem, which moves nothing: the edge is not
\* movable.
edgeMouseMove(r, e, delta) ==
    IF r.srcNode[e] # NULL /\ r.dstNode[e] # NULL
    THEN UpdateEach(MoveNodes(r, SeqOf(nodesToMove(r)), delta),
                    SeqOf(SelectedEdges(r)))
    ELSE r

\* QGraphicsItem::mouseMoveEvent of a node, which is movable (line 14): the
\* selected movable items, that is the selected nodes, move with the
\* pointer.
nodeMouseMove(r, delta) == MoveNodes(r, SeqOf(SelectedNodes(r)), delta)

\* The view's pan marks: the button that started the pan.
CtrlLeft == <<"pan", 1>>
Middle == <<"pan", 2>>

\* The scene sends the move to the item that has grabbed the pointer.
grabberMove(r, h, delta) ==
    IF IsNode(h) THEN nodeMouseMove(r, delta)
    ELSE IF IsEdge(h) THEN edgeMouseMove(r, Id(h), delta)
    ELSE r

\* A pointer move that moves the preview line and the grabbed items also
\* while the view is panning.
mouseMove_throughPan(r, h, delta, scenePos) ==
    grabberMove(moveCreatingEdge(
                    IF r.isPanning THEN [r EXCEPT !.scroll = Minus(@, delta)]
                    ELSE r, scenePos), h, delta)

\* eventFilter for a pointer move by delta (lines 593-614), h being what
\* has grabbed the pointer and scenePos the pointer's new position in the
\* scene: while panning the view scrolls and the event is consumed;
\* otherwise the preview line follows and the event goes on to the view.
mouseMove(r, h, delta, scenePos) ==
    IF r.isPanning THEN [r EXCEPT !.scroll = Minus(@, delta)]
    ELSE grabberMove(moveCreatingEdge(r, scenePos), h, delta)

\* eventFilter for a press of the middle button or of the left button with
\* Ctrl (lines 551-558): the event is consumed.
panPress(r) == [r EXCEPT !.isPanning = TRUE]

\* eventFilter for the release of the button that holds h (lines 616-627):
\* while panning, the release of the middle button, or of the left one with
\* Ctrl held still, ends the pan and is consumed.  Otherwise the event goes
\* on to the view: an item released where it was pressed becomes the
\* selection.
mouseRelease(r, h, ctrl, moved) ==
    IF r.isPanning /\ (h = Middle \/ ctrl)
    THEN [r EXCEPT !.isPanning = FALSE]
    ELSE IF (IsNode(h) \/ IsEdge(h)) /\ ~moved
    THEN replaceSelection(r, {h})
    ELSE r

\* The view's part of a left press on item x: an item that is not selected
\* becomes the selection.
pressItem(r, x) ==
    replaceSelection(r, IF x \in r.selected THEN r.selected ELSE {x})

\* ------------------------------------------------------------------ actions
\* The state r when the constructor returns.
Started(r) ==
    /\ nodes = r.nodes /\ edges = r.edges
    /\ allocN = r.allocN /\ allocE = r.allocE
    /\ destroyed = r.destroyed /\ scene = r.scene
    /\ srcNode = r.srcNode /\ dstNode = r.dstNode
    /\ edgeList = r.edgeList /\ zValue = r.zValue
    /\ selected = r.selected /\ lastSelectedItems = r.lastSelectedItems
    /\ edgeSourceNode = r.edgeSourceNode /\ isCreatingEdge = r.isCreatingEdge
    /\ tempEdgeLine = r.tempEdgeLine /\ lineItems = r.lineItems
    /\ pos = r.pos /\ line = r.line /\ previewLine = r.previewLine
    /\ isPanning = r.isPanning /\ scroll = r.scroll
    /\ scale = r.scale /\ nodeLabel = r.nodeLabel
    /\ cursor = Origin /\ held = NoItem /\ moves = 0 /\ passes = {}
    /\ notice = r.notice /\ lastEvent = "none" /\ deselected = {}
    /\ ub = FALSE /\ crashed = FALSE

\* NetSim::NetSim: the members' initial values, then testGraph.
Init == Started(testGraph(Constructed))

\* The state a handler leaves.
Commit(r) ==
    /\ nodes' = r.nodes /\ edges' = r.edges
    /\ allocN' = r.allocN /\ allocE' = r.allocE
    /\ destroyed' = r.destroyed /\ scene' = r.scene
    /\ srcNode' = r.srcNode /\ dstNode' = r.dstNode
    /\ edgeList' = r.edgeList /\ zValue' = r.zValue
    /\ selected' = r.selected /\ lastSelectedItems' = r.lastSelectedItems
    /\ edgeSourceNode' = r.edgeSourceNode /\ isCreatingEdge' = r.isCreatingEdge
    /\ tempEdgeLine' = r.tempEdgeLine /\ lineItems' = r.lineItems
    /\ pos' = r.pos /\ line' = r.line /\ previewLine' = r.previewLine
    /\ isPanning' = r.isPanning /\ scroll' = r.scroll
    /\ scale' = r.scale /\ nodeLabel' = r.nodeLabel
    /\ passes' = r.passes
    /\ notice' = r.notice

\* The process ends inside a handler: nothing of its state is left to see.
Crash ==
    /\ crashed' = TRUE /\ ub' = TRUE
    /\ UNCHANGED <<nodes, edges, allocN, allocE, destroyed, scene, srcNode,
                   dstNode, edgeList, zValue, selected, lastSelectedItems,
                   edgeSourceNode, isCreatingEdge, tempEdgeLine, lineItems,
                   pos, line, previewLine, isPanning, scroll, scale,
                   nodeLabel, cursor, held, moves, passes, notice, lastEvent,
                   deselected>>

\* A handler that ran into undefined behaviour either went on, on stale
\* values, or ended the process.  The event leaves the pointer at c with h
\* grabbed, after m moves with a button held.
FinishAt(r, event, h, c, m) ==
    \/ /\ Commit(r)
       /\ held' = h /\ cursor' = c /\ moves' = m
       /\ lastEvent' = event /\ deselected' = selected \ r.selected
       /\ ub' = (ub \/ r.ub) /\ crashed' = FALSE
    \/ r.ub /\ Crash

\* The same for an event that leaves pointer and buttons as they were.
Finish(r, event) == FinishAt(r, event, held, cursor, moves)

\* Node n is one of the nodes the pointer gets over, in the first graph or
\* in a later one.
PointerNode(n) == ((n - 1) % Len(TestNodes)) + 1 \in PointerNodes

\* The edges created by clicks so far.
CreatedEdges == allocE - Len(TestEdges) * (allocN \div Len(TestNodes))

\* The items the pointer gets over: the pointer nodes and the edges that
\* have no other node at an end.
InReach(x) ==
    /\ x \in scene
    /\ IF IsNode(x) THEN PointerNode(Id(x))
       ELSE \A n \in {srcNode[Id(x)], dstNode[Id(x)]} \ {NULL} :
                PointerNode(n)

\* eventFilter, left press without Ctrl (lines 560-585), and what the view
\* then does with the click: destNode is getNodeAt's answer, S the selection
\* the click leaves.
leftClick(r, destNode, S) ==
    replaceSelection(onSelectionChanged(pressCreatingEdge(r, destNode)), S)

\* The press would create an edge: there must be an edge left to allocate.
CanPress(destNode) ==
    (isCreatingEdge /\ destNode # NULL /\ destNode # edgeSourceNode)
        => CreatedEdges < MaxNewEdges

\* A left click on node n.
LeftClickNode(n) ==
    /\ ~crashed /\ InReach(N(n)) /\ CanPress(n)
    /\ Finish(leftClick(Cur, n, {N(n)}), "click on node")

\* A left click on edge e, away from every node.
LeftClickEdge(e) ==
    /\ ~crashed /\ InReach(E(e))
    /\ Finish(leftClick(Cur, NULL, {E(e)}), "click on edge")

\* A left press on empty space and a rubber band over the items S, the
\* pointer moving when S is not empty; with S empty, a click on empty space.
RubberBand(S) ==
    /\ ~crashed /\ \A x \in S : InReach(x)
    /\ IF S = {}
       THEN Finish(leftClick(Cur, NULL, {}), "click on empty space")
       ELSE Finish(replaceSelection(
                       moveCreatingEdge(leftClick(Cur, NULL, {}), cursor), S),
                   "rubber band")

\* Right click on node n, then "Add edge".
MenuAddEdge(n) ==
    /\ ~crashed /\ InReach(N(n)) /\ Cardinality(lineItems) < MaxLines
    /\ Finish(menuAddEdge(showContextMenu(Cur, N(n)), n), "Add edge")

\* Right click on node n, then "Delete Node".
MenuDeleteNode(n) ==
    /\ ~crashed /\ InReach(N(n))
    /\ Finish(menuDeleteNode(showContextMenu(Cur, N(n)), n), "Delete Node")

\* Right click on edge e, then "Delete Edge".
MenuDeleteEdge(e) ==
    /\ ~crashed /\ InReach(E(e))
    /\ Finish(menuDeleteEdge(showContextMenu(Cur, E(e)), e), "Delete Edge")

\* Right click on a node, on an edge or on empty space, the menu dismissed.
MenuDismiss(target) ==
    /\ ~crashed /\ (target = NoItem \/ InReach(target))
    /\ Finish(showContextMenu(Cur, target), "menu dismissed")

\* The escape key.
KeyEscape ==
    /\ ~crashed
    /\ Finish(keyPressEscape(Cur), "escape")

\* The Delete action, the scene giving its selected items in some order.
DeleteSelected ==
    /\ ~crashed
    /\ \E order \in Perms(selected) :
           Finish(onDeleteSelected(Cur, order), "Delete")

Next ==
    \/ \E n \in NodeIds : LeftClickNode(n)
    \/ \E e \in EdgeIds : LeftClickEdge(e)
    \/ \E S \in SUBSET {x \in Items : InReach(x)} : RubberBand(S)
    \/ \E n \in NodeIds : MenuAddEdge(n)
    \/ \E n \in NodeIds : MenuDeleteNode(n)
    \/ \E e \in EdgeIds : MenuDeleteEdge(e)
    \/ \E target \in Items \cup {NoItem} : MenuDismiss(target)
    \/ KeyEscape
    \/ DeleteSelected

Spec == Init /\ [][Next]_vars

\* A left press without Ctrl on item x, the button held: eventFilter (lines
\* 560-585), then the view.
PressItem(x) ==
    /\ ~crashed /\ held = NoItem /\ InReach(x) /\ moves < MaxMoves
    /\ CanPress(IF IsNode(x) THEN Id(x) ELSE NULL)
    /\ FinishAt(pressItem(onSelectionChanged(
                              pressCreatingEdge(
                                  Cur, IF IsNode(x) THEN Id(x) ELSE NULL)),
                          x),
                IF IsNode(x) THEN "press on node" ELSE "press on edge",
                x, cursor, moves)

\* A press of the middle button (b = Middle) or of the left button with
\* Ctrl (b = CtrlLeft) over x, an item or empty space, the button held.
PanPress(b, x) ==
    /\ ~crashed /\ held = NoItem /\ (x = NoItem \/ InReach(x))
    /\ FinishAt(panPress(Cur),
                IF IsNode(x) THEN "pan press on node" ELSE "pan press",
                b, cursor, moves)

\* A pointer move by delta, with a button held or with none.  While the
\* view pans, the scene scrolls with the pointer.
Move(delta) ==
    /\ ~crashed /\ moves < MaxMoves
    /\ FinishAt(mouseMove(Cur, held, delta, Plus(cursor, delta)), "move",
                held, IF isPanning THEN cursor ELSE Plus(cursor, delta),
                moves + 1)

\* The release of the held button, with Ctrl down or not.  The pointer has
\* moved in the scene since the press when a move came last and the view
\* was not panning.
Release(ctrl) ==
    /\ ~crashed /\ held # NoItem
    /\ FinishAt(mouseRelease(Cur, held, ctrl,
                             lastEvent = "move" /\ ~isPanning),
                "release", NoItem, cursor, moves)

\* Edit > Add Node, the input dialog left with OK or not, with the label
\* typed into it.
AddNodeDialog(ok, label) ==
    /\ ~crashed /\ allocN < Len(TestNodes) + MaxAdded
    /\ Finish(onAddNode(Cur, ok, label),
              IF ~ok THEN "Add Node cancelled"
              ELSE IF label = "" THEN "Add Node, empty label"
              ELSE "Add Node")

\* A right click at point p of the scene, the menu dismissed.
RightClickAt(p) ==
    /\ ~crashed
    /\ \E clickedNode \in getNodeAt(Cur, p) :
           FinishAt(showContextMenuAt(Cur, p, clickedNode),
                    menuKind(Cur, p, clickedNode), held, p, moves)

\* A right click at point p on a node, then "Add edge".
AddEdgeAt(p) ==
    /\ ~crashed /\ Cardinality(lineItems) < MaxLines
    /\ \E clickedNode \in getNodeAt(Cur, p) \ {NULL} :
           FinishAt(menuAddEdge(showContextMenuAt(Cur, p, clickedNode),
                                clickedNode),
                    "Add edge at point", held, p, moves)

\* A right click at point p on empty space, then "Add Node".
AddNodeAtPoint(p) ==
    /\ ~crashed /\ allocN < Len(TestNodes) + MaxAdded
    /\ getNodeAt(Cur, p) = {NULL} /\ clickedEdge(Cur, p) = NULL
    /\ FinishAt(menuAddNode(showContextMenuAt(Cur, p, NULL), p),
                "Add Node at point", held, p, moves)

\* Right clicks at points and "Add Node" by menu and by dialog, among
\* clicks on nodes.
NextHit ==
    \/ \E p \in HitPoints : RightClickAt(p)
    \/ \E p \in HitPoints : AddEdgeAt(p)
    \/ \E p \in HitPoints : AddNodeAtPoint(p)
    \/ \E ok \in BOOLEAN, label \in Labels : AddNodeDialog(ok, label)
    \/ \E n \in NodeIds : LeftClickNode(n)

SpecHit == Init /\ [][NextHit]_vars

\* Drags of nodes and edges among rubber bands and delete-selected.
NextDrag ==
    \/ \E x \in Items : PressItem(x)
    \/ \E delta \in Deltas : Move(delta)
    \/ \E ctrl \in BOOLEAN : Release(ctrl)
    \/ held = NoItem
           /\ \E S \in SUBSET {x \in Items : InReach(x)} : RubberBand(S)
    \/ held = NoItem /\ DeleteSelected

SpecDrag == Init /\ [][NextDrag]_vars

\* Pans among "Add edge", clicks on nodes and the escape key.
NextPan ==
    \/ \E b \in {CtrlLeft, Middle}, x \in Items \cup {NoItem} : PanPress(b, x)
    \/ \E delta \in Deltas : Move(delta)
    \/ \E ctrl \in BOOLEAN : Release(ctrl)
    \/ held = NoItem /\ \E n \in NodeIds : MenuAddEdge(n)
    \/ held = NoItem /\ \E n \in NodeIds : LeftClickNode(n)
    \/ held = NoItem /\ KeyEscape

SpecPan == Init /\ [][NextPan]_vars

\* The items of set S as a list, the edges in the order of their creation
\* and then the nodes in theirs, or the nodes first.
SampleOrders(S) ==
    {SelectSeq([i \in EdgeIds |-> E(i)], LAMBDA x : x \in S)
         \o SelectSeq([i \in NodeIds |-> N(i)], LAMBDA x : x \in S),
     SelectSeq([i \in NodeIds |-> N(i)], LAMBDA x : x \in S)
         \o SelectSeq([i \in EdgeIds |-> E(i)], LAMBDA x : x \in S)}

\* A wheel event with the given angle, the pointer over the viewport.
Wheel(numDegrees) ==
    /\ ~crashed /\ moves < MaxMoves
    /\ FinishAt(wheelEvent(Cur, numDegrees, cursor),
                IF numDegrees = Origin THEN "wheel, no angle"
                ELSE IF numDegrees[2] > 0 THEN "wheel up"
                ELSE IF numDegrees[2] < 0 THEN "wheel down"
                ELSE "wheel sideways",
                held, cursor, moves + 1)

\* View > Zoom In and View > Zoom Out, the pointer over the view or not.
ZoomIn ==
    /\ ~crashed /\ moves < MaxMoves
    /\ \E anchor \in {cursor, viewCenter(Cur)} :
           FinishAt(onZoomIn(Cur, anchor), "Zoom In", held, cursor, moves + 1)
ZoomOut ==
    /\ ~crashed /\ moves < MaxMoves
    /\ \E anchor \in {cursor, viewCenter(Cur)} :
           FinishAt(onZoomOut(Cur, anchor), "Zoom Out", held, cursor,
                    moves + 1)

\* View > Reset View.
ResetView ==
    /\ ~crashed
    /\ Finish(onResetView(Cur), "Reset View")

\* The MaxBand oldest items of set S.
Oldest(S) ==
    {x \in S : Cardinality({y \in S : Id(y) < Id(x)}) < MaxBand}

\* A left press on empty space and a rubber band over the oldest nodes of
\* the scene.
RubberBandOldest ==
    /\ ~crashed /\ \E x \in scene : IsNode(x)
    /\ Finish(replaceSelection(
                  moveCreatingEdge(leftClick(Cur, NULL, {}), cursor),
                  Oldest({x \in scene : IsNode(x)})),
              "rubber band")

\* The Delete action, the scene giving its selected items edges first or
\* nodes first.
DeleteInOrder ==
    /\ ~crashed
    /\ \E order \in SampleOrders(selected) :
           Finish(onDeleteSelected(Cur, order), "Delete")

\* Zooms, pans and resets of the view, among deletions of the oldest nodes.
NextView ==
    \/ \E numDegrees \in WheelAngles : Wheel(numDegrees)
    \/ ZoomIn
    \/ ZoomOut
    \/ ResetView
    \/ PanPress(Middle, NoItem)
    \/ \E delta \in Deltas : Move(delta)
    \/ \E ctrl \in BOOLEAN : Release(ctrl)
    \/ held = NoItem /\ RubberBandOldest
    \/ held = NoItem /\ DeleteInOrder

SpecView == Init /\ [][NextView]_vars

\* Additions of nodes and edges among deletions by menu and by the Delete
\* action.
NextOrder ==
    \/ \E n \in NodeIds : LeftClickNode(n)
    \/ \E e \in EdgeIds : LeftClickEdge(e)
    \/ \E n \in NodeIds : MenuAddEdge(n)
    \/ \E n \in NodeIds : MenuDeleteNode(n)
    \/ \E e \in EdgeIds : MenuDeleteEdge(e)
    \/ \E ok \in BOOLEAN, label \in Labels : AddNodeDialog(ok, label)
    \/ DeleteSelected

SpecOrder == Init /\ [][NextOrder]_vars

\* File > New, while there are objects left to allocate.
NewDiagram ==
    /\ ~crashed /\ allocN \div Len(TestNodes) <= MaxNew
    /\ \E byZ \in BOOLEAN : Finish(actionNew(Cur, byZ), "New")

\* Edit > Add Edge.
EditAddEdge ==
    /\ ~crashed
    /\ Finish(onAddEdge(Cur), "Edit > Add Edge")

\* The ways into and out of the creation of an edge, among deletions and
\* "new diagram".
NextMode ==
    \/ \E n \in NodeIds : LeftClickNode(n)
    \/ \E n \in NodeIds : MenuAddEdge(n)
    \/ \E n \in NodeIds : MenuDeleteNode(n)
    \/ RubberBand({})
    \/ KeyEscape
    \/ DeleteSelected
    \/ NewDiagram
    \/ EditAddEdge

SpecMode == Init /\ [][NextMode]_vars

\* "New diagram" among clicks, rubber bands, "Add edge", escape and
\* delete-selected.
NextNew ==
    \/ \E n \in NodeIds : LeftClickNode(n)
    \/ \E e \in EdgeIds : LeftClickEdge(e)
    \/ \E S \in SUBSET {x \in Items : InReach(x)} : RubberBand(S)
    \/ \E n \in NodeIds : MenuAddEdge(n)
    \/ KeyEscape
    \/ DeleteSelected
    \/ NewDiagram

SpecNew == Init /\ [][NextNew]_vars

\* NetSim::AddEdge called with any two nodes of the node collection, as
\* testGraph calls it.
CallAddEdge(s, d) ==
    /\ ~crashed /\ s \in Range(nodes) /\ d \in Range(nodes)
    /\ CreatedEdges < MaxNewEdges
    /\ Finish(AddEdge(Cur, s, d), "AddEdge")

\* The calls of AddEdge among clicks and deletions of edges.
NextApi ==
    \/ \E s, d \in NodeIds : CallAddEdge(s, d)
    \/ \E n \in NodeIds : LeftClickNode(n)
    \/ \E e \in EdgeIds : LeftClickEdge(e)
    \/ \E e \in EdgeIds : MenuDeleteEdge(e)

SpecApi == Init /\ [][NextApi]_vars

\* ------------------------------------------------------------------ claims
\* The edges of the collection that start or end at node n.
EdgesAt(n) ==
    {edges[i] : i \in {k \in 1..Len(edges) :
                          srcNode[edges[k]] = n \/ dstNode[edges[k]] = n}}

\* The nodes a step destroys.
DeletedNow(n) == N(n) \in destroyed' /\ N(n) \notin destroyed

\* C1: a step that deletes node n, by the context menu's "Delete Node" or by
\* the Delete action, leaves no edge in the edge collection whose source or
\* destination is n.
C1_NoEdgeOfDeletedNode ==
    [][\A n \in NodeIds :
           DeletedNow(n) =>
               \A i \in 1..Len(edges') :
                   /\ srcNode'[edges'[i]] # n
                   /\ dstNode'[edges'[i]] # n]_vars

\* C2: in every state, the edge list of every node of the node collection
\* holds exactly the edges of the edge collection that start or end at it.
C2_IncidentListsMatchCollection ==
    \A n \in Range(nodes) : Range(edgeList[n]) = EdgesAt(n)

\* C3: a step that deletes the source node of the edge being created ends
\* the creation of the edge: the mode after it is idle.
C3_DeletingSourceForcesIdle ==
    [][\A n \in NodeIds :
           (isCreatingEdge /\ edgeSourceNode = n /\ DeletedNow(n))
               => (~isCreatingEdge' /\ edgeSourceNode' = NULL)]_vars

\* C4: AddEdge called with the same node as source and destination fails:
\* the edge collection and the node's edge list are as before and the
\* self-loop rejection is reported.
C4_AddEdgeRejectsSelfLoop ==
    [][\A n \in NodeIds :
           (CallAddEdge(n, n) /\ ~crashed')
               => /\ edges' = edges
                  /\ edgeList' = edgeList
                  /\ notice' = "Cannot create an edge from a node to itself."]_vars

\* The edge being created starts at node n.
CreatingEdge(n) == isCreatingEdge /\ edgeSourceNode = n /\ n # NULL

\* The step leaves the creation of an edge: the mode is idle and the preview
\* line the mode held is out of the scene.
PreviewDiscarded ==
    /\ ~isCreatingEdge'
    /\ tempEdgeLine' = NULL
    /\ lineItems' = lineItems \ {tempEdgeLine}

\* The step is a left click on node m that the handler returns from.
ClickedNode(m) ==
    ~crashed' /\ lastEvent' = "click on node" /\ LeftClickNode(m)

\* The step is a left click on empty space that the handler returns from.
ClickedEmptySpace ==
    ~crashed' /\ lastEvent' = "click on empty space" /\ RubberBand({})

\* The step is a left click on an edge, away from every node, that the
\* handler returns from.
ClickedEdge ==
    /\ ~crashed' /\ lastEvent' = "click on edge"
    /\ \E e \in EdgeIds : LeftClickEdge(e)

\* The step is the escape key.
PressedEscape == lastEvent' = "escape" /\ KeyEscape

\* C5: while an edge is created from node n, a left click on another node m
\* that the handler returns from appends one edge from n to m to the edge
\* collection, leaves the mode idle and the preview line discarded, and
\* adds or removes no other node or edge.
C5_ClickOnOtherNodeCreatesEdge ==
    [][\A n, m \in NodeIds :
           (CreatingEdge(n) /\ m # n /\ ClickedNode(m))
               => /\ edges' = Append(edges, allocE + 1)
                  /\ srcNode'[allocE + 1] = n
                  /\ dstNode'[allocE + 1] = m
                  /\ allocE' = allocE + 1
                  /\ E(allocE + 1) \in scene'
                  /\ nodes' = nodes
                  /\ destroyed' = destroyed
                  /\ PreviewDiscarded]_vars

\* An edge from one node to another has just been created by a click.
C5_Witness ==
    /\ lastEvent = "click on node" /\ ~crashed
    /\ allocE > Len(TestEdges)
    /\ edges # <<>> /\ edges[Len(edges)] = allocE
    /\ srcNode[allocE] # dstNode[allocE]
    /\ selected = {N(dstNode[allocE])}
    /\ ~isCreatingEdge /\ tempEdgeLine = NULL

\* C6: while an edge is created from node n, a left click on n itself that
\* the handler returns from leaves the mode idle and the preview line
\* discarded, reports the self-loop, and changes neither the node
\* collection nor the edge collection nor any edge list.
C6_ClickOnSourceRejected ==
    [][\A n \in NodeIds :
           (CreatingEdge(n) /\ ClickedNode(n))
               => /\ PreviewDiscarded
                  /\ notice' = "Cannot create an edge from a node to itself."
                  /\ nodes' = nodes
                  /\ edges' = edges
                  /\ edgeList' = edgeList
                  /\ allocE' = allocE]_vars

\* The click on the source node has just been refused.
C6_Witness ==
    /\ lastEvent = "click on node" /\ ~crashed
    /\ notice = "Cannot create an edge from a node to itself."
    /\ ~isCreatingEdge /\ tempEdgeLine = NULL
    /\ Len(edges) = Len(TestEdges) /\ allocE = Len(TestEdges)

\* C7: the escape key, while an edge is created, leaves the mode idle, the
\* source node cleared and the preview line discarded, with the node and
\* edge collections as before; in idle mode it changes nothing.
C7_EscapeCancels ==
    [][PressedEscape =>
           IF isCreatingEdge
           THEN /\ PreviewDiscarded
                /\ edgeSourceNode' = NULL
                /\ nodes' = nodes /\ edges' = edges
                /\ edgeList' = edgeList /\ destroyed' = destroyed
           ELSE UNCHANGED <<nodes, edges, allocN, allocE, destroyed, scene,
                            srcNode, dstNode, edgeList, zValue, selected,
                            lastSelectedItems, edgeSourceNode,
                            isCreatingEdge, tempEdgeLine, lineItems>>]_vars

\* The escape key has just cancelled the creation of an edge.
C7_Witness ==
    /\ lastEvent = "escape" /\ notice = "Edge creation cancelled."
    /\ ~isCreatingEdge /\ edgeSourceNode = NULL /\ tempEdgeLine = NULL

C9_SelectedEdgeHasSelectedEnds ==
    ~crashed =>
        \A e \in EdgeIds :
            E(e) \in selected =>
                N(srcNode[e]) \in selected /\ N(dstNode[e]) \in selected

\* The default z value of an item.
DefaultZ(x) ==
    IF IsNode(x) THEN NetworkNode_DEFAULT_ZVALUE ELSE NetworkEdge_DEFAULT_ZVALUE

\* Item x leaves the selection in this step and stays in the scene.
Deselected(x) == x \in selected /\ x \notin selected' /\ x \in scene' /\ ~crashed'

OnSelectedNode(e) ==
    \E n \in NodeIds : N(n) \in selected' /\ e \in Range(edgeList'[n])

Highlighted(e) ==
    E(e) \in scene /\ zValue[E(e)] = NetworkEdge_SELECTED_ZVALUE

\* Edge e is in the edge list of a selected node.
InListOfSelectedNode(e) ==
    \E n \in NodeIds : N(n) \in selected /\ e \in Range(edgeList[n])

SelectedAfter(n, m) ==
    /\ n # m /\ selected = {N(n)}
    /\ selected' = {N(n), N(m)} /\ ~crashed'

\* C12: when node B is selected after node A, B is at a z value strictly
\* above A's, A is at the highlighted z value (100), and every other item
\* of the scene is at its default z value.
C12_LastSelectedAboveHighlighted ==
    [][\A n, m \in NodeIds :
           SelectedAfter(n, m) =>
               /\ zValue'[N(m)] > zValue'[N(n)]
               /\ zValue'[N(n)] = NetworkNode_SELECTED_ZVALUE
               /\ \A x \in scene' \ {N(n), N(m)} :
                      zValue'[x] = DefaultZ(x)]_vars

\* The highlighted z value of an item.
SelectedZ(x) ==
    IF IsNode(x) THEN NetworkNode_SELECTED_ZVALUE ELSE NetworkEdge_SELECTED_ZVALUE

\* C13: in every state a handler leaves with a selection that is not empty,
\* every selected item is at its highlighted z value (node 100, edge 5).
C13_SelectedAtHighlighted ==
    ~crashed => \A x \in selected : zValue[x] = SelectedZ(x)

\* A click on an edge has selected the edge and its two end nodes, and the
\* three are at their highlighted z values.
C13_Witness ==
    /\ lastEvent = "click on edge" /\ ~crashed
    /\ \E e \in EdgeIds :
           /\ selected = {E(e), N(srcNode[e]), N(dstNode[e])}
           /\ zValue[E(e)] = NetworkEdge_SELECTED_ZVALUE
           /\ zValue[N(srcNode[e])] = NetworkNode_SELECTED_ZVALUE
           /\ zValue[N(dstNode[e])] = NetworkNode_SELECTED_ZVALUE

\* List s without edge e.
Without(s, e) == SelectSeq(s, LAMBDA x : x # e)

\* Edge e has gone from the list edges and from every edge list, it alone
\* has been destroyed, and the nodes, the other edges and the other entries
\* of the edge lists are as they were.
OnlyEdgeRemoved(e) ==
    /\ edges' = Without(edges, e)
    /\ \A n \in NodeIds : edgeList'[n] = Without(edgeList[n], e)
    /\ nodes' = nodes
    /\ destroyed' = destroyed \cup {E(e)}
    /\ srcNode' = srcNode /\ dstNode' = dstNode

\* "Delete Edge" of the context menu on edge e, the handler returning.
MenuDeletedEdge(e) ==
    /\ lastEvent' = "Delete Edge" /\ ~crashed'
    /\ E(e) \in scene /\ E(e) \notin scene'

\* Delete-selected on edge e: the selection is what selecting e gives (the
\* edge, with its end nodes), and the Delete handler returns.
DeletedSelectedEdge(e) ==
    /\ lastEvent' = "Delete" /\ ~crashed'
    /\ E(e) \in selected
    /\ selected \subseteq {E(e), N(srcNode[e]), N(dstNode[e])}

\* C17: deleting an edge, by "Delete Edge" of the context menu or by
\* delete-selected on the edge, removes it from the list edges and from the
\* edge lists of its end nodes and leaves every node, every other edge and
\* every other entry of the edge lists as they were.
C17_DeleteEdgeRemovesOnlyTheEdge ==
    [][\A e \in EdgeIds :
           (MenuDeletedEdge(e) \/ DeletedSelectedEdge(e))
               => OnlyEdgeRemoved(e)]_vars

\* Delete-selected has run with nothing selected, the handler returning.
DeletedNothing == lastEvent' = "Delete" /\ selected = {} /\ ~crashed'

\* C20: delete-selected with nothing selected tells the user so, and leaves
\* the lists nodes and edges, every edge list, lastSelectedItems and the
\* edge creation mode (flag, source node, preview line) as they were.
C20_EmptyDeleteReportsAndKeepsState ==
    [][DeletedNothing =>
           /\ notice' = "No items selected."
           /\ nodes' = nodes /\ edges' = edges /\ edgeList' = edgeList
           /\ lastSelectedItems' = lastSelectedItems
           /\ isCreatingEdge' = isCreatingEdge
           /\ edgeSourceNode' = edgeSourceNode
           /\ tempEdgeLine' = tempEdgeLine]_vars

\* Delete-selected has run with nothing selected, while an edge was being
\* created and lastSelectedItems held the items selected before: the user
\* has been told, and both are still there.
C20_Witness ==
    /\ lastEvent = "Delete" /\ notice = "No items selected." /\ ~crashed
    /\ selected = {} /\ lastSelectedItems # {}
    /\ isCreatingEdge /\ edgeSourceNode # NULL

\* "New diagram" has run, the handler returning.
NewDone == lastEvent' = "New" /\ ~crashed'

\* C19: after "new diagram", whatever the state before, no edge is being
\* created (no source node, no preview line), nothing is selected,
\* lastSelectedItems is empty, and no node or edge of the lists nodes and
\* edges of before is in them or in the scene.
C19_NewDiagramStartsClean ==
    [][NewDone =>
           /\ ~isCreatingEdge' /\ edgeSourceNode' = NULL
           /\ tempEdgeLine' = NULL /\ lineItems' = {}
           /\ selected' = {} /\ lastSelectedItems' = {}
           /\ Range(nodes') \cap Range(nodes) = {}
           /\ Range(edges') \cap Range(edges) = {}
           /\ scene' \cap scene = {}]_vars

\* A drag step: a pointer move with the left button held on a node or on an
\* edge, the view not panning and the handler returning.
DragStep ==
    /\ lastEvent' = "move" /\ ~crashed'
    /\ (IsNode(held) \/ IsEdge(held)) /\ ~isPanning

\* The nodes of the scene that are selected or at an end of a selected edge.
SelectedOrEnd ==
    {n \in NodeIds :
        /\ N(n) \in scene
        /\ \/ N(n) \in selected
           \/ \E e \in EdgeIds :
                  E(e) \in selected /\ n \in {srcNode[e], dstNode[e]}}

\* C14: one drag step with delta d moves every selected node and every end
\* node of a selected edge by exactly d, a node that is both by d and not by
\* a multiple of it, and moves no other node.
C14_DragMovesEachNodeOnce ==
    [][DragStep =>
           \A n \in NodeIds :
               N(n) \in scene =>
                   pos'[n] = IF n \in SelectedOrEnd
                             THEN Plus(pos[n], Minus(cursor', cursor))
                             ELSE pos[n]]_vars

\* A pointer move with the left button held on a selected edge has moved
\* both end nodes of the edge, which are selected too, by the pointer's
\* delta, and the line of the edge with them.
C14_Witness ==
    /\ lastEvent = "move" /\ ~crashed /\ IsEdge(held) /\ moves = 1
    /\ held \in selected
    /\ N(srcNode[Id(held)]) \in selected /\ N(dstNode[Id(held)]) \in selected
    /\ pos[srcNode[Id(held)]] =
           Plus(TestPos[srcNode[Id(held)]], Minus(cursor, Origin))
    /\ pos[dstNode[Id(held)]] =
           Plus(TestPos[dstNode[Id(held)]], Minus(cursor, Origin))
    /\ cursor # Origin

\* C16: every refresh pass that a change of a node's position triggers
\* reads the position after the change is applied; no pass runs on the
\* position the node had before, while the change is under way.
C16_RefreshReadsAppliedPosition ==
    ~crashed => \A p \in passes : p[2] = p[3]

\* The edges of the scene that have node n at an end.
IncidentTo(n) ==
    {e \in EdgeIds : E(e) \in scene /\ n \in {srcNode[e], dstNode[e]}}

\* The line of edge e runs from its source node's position to its
\* destination node's position.
LineFollowsNodes(e) == line[e] = <<pos[srcNode[e]], pos[dstNode[e]]>>

\* C15: after a node is moved and the refresh has run, every edge incident
\* to the node has a line whose end on the node's side is the node's new
\* position and whose other end is the other node's current position.
C15_IncidentEdgesFollowMovedNode ==
    [][DragStep =>
           \A n \in NodeIds :
               (N(n) \in scene /\ pos'[n] # pos[n]) =>
                   \A e \in IncidentTo(n)' : LineFollowsNodes(e)']_vars

\* A step of a pan gesture from which the handler returns: the press that
\* starts the pan, or a move or the release while its button is held.
PanStep ==
    /\ ~crashed'
    /\ held \in {CtrlLeft, Middle} \/ held' \in {CtrlLeft, Middle}

\* C18: through a whole gesture that starts a pan (middle press or Ctrl with
\* left press) no edge is created, no node moves and the preview line does
\* not move, also in edge creation and with the press on a node.
C18_PanGestureOnlyPans ==
    [][PanStep =>
           /\ edges' = edges /\ allocE' = allocE /\ scene' = scene
           /\ pos' = pos /\ line' = line /\ previewLine' = previewLine
           /\ isCreatingEdge' = isCreatingEdge
           /\ edgeSourceNode' = edgeSourceNode]_vars

\* The view has scrolled by a move with the pan button held during edge
\* creation, the preview line drawn before the press being where it was.
C18_Witness ==
    /\ lastEvent = "move" /\ ~crashed /\ held \in {CtrlLeft, Middle}
    /\ isPanning /\ scroll # Origin
    /\ isCreatingEdge /\ previewLine # NoLine
    /\ previewLine = <<pos[edgeSourceNode], cursor>>

\* C22: in every state every edge of the edge collection has a source other
\* than its destination, and both are nodes of the node collection.
C22_EdgesJoinTwoLiveNodes ==
    \A e \in Range(edges) :
        /\ srcNode[e] # dstNode[e]
        /\ srcNode[e] \in Range(nodes)
        /\ dstNode[e] \in Range(nodes)

\* C30: in every state the node list holds exactly the nodes of the scene,
\* and the edge list exactly the edges of the scene that are not destroyed.
C30_ListsAgreeWithScene ==
    /\ Range(nodes) = {n \in NodeIds : N(n) \in scene}
    /\ Range(edges) =
           {e \in EdgeIds : E(e) \in scene /\ E(e) \notin destroyed}

\* C29: a delete-selected pass destroys no item twice and uses no item it
\* has destroyed: started where nothing undefined has happened, it ends
\* with nothing undefined having happened.
C29_DeletePassTouchesNoDestroyedItem ==
    [][(lastEvent' = "Delete" /\ ~ub) => ~ub']_vars

\* A pointer move with no button held, in the creation of an edge from node
\* n, from which the handler returns.
MovedWhileCreating(n) ==
    /\ lastEvent' = "move" /\ ~crashed' /\ held = NoItem
    /\ CreatingEdge(n)

\* C27: in the creation of an edge from node n a pointer move keeps the mode
\* and the source, sets the preview line to run from n's position to the
\* pointer's position, and leaves nodes, edges and selection as they were.
C27_MoveDrawsPreviewLine ==
    [][\A n \in NodeIds :
           MovedWhileCreating(n) =>
               /\ CreatingEdge(n)'
               /\ previewLine' = <<pos'[n], cursor'>>
               /\ nodes' = nodes /\ edges' = edges /\ selected' = selected
               /\ pos' = pos]_vars

\* A request to create a node with an empty label, from which the handler
\* returns: "Add Node" of the menu bar with the dialog left empty, or "Add
\* Node" of the menu of the empty space, which passes no label.
EmptyLabelRequest ==
    /\ lastEvent' \in {"Add Node, empty label", "Add Node at point"}
    /\ ~crashed'

\* C21: a request to create a node with an empty label is refused: the node
\* collection is as it was and the user is told of the refusal.
C21_EmptyLabelRefused ==
    [][EmptyLabelRequest => (nodes' = nodes /\ notice' # "none")]_vars

\* Node n is the answer the claim allows at point p: its shape contains p,
\* no node there has a greater z value, and of the nodes there with its z
\* value it is the one added last.
BestNodeAt(n, p) ==
    /\ n \in NodesAt(Cur, p)
    /\ \A m \in NodesAt(Cur, p) :
           \/ zValue[N(m)] < zValue[N(n)]
           \/ zValue[N(m)] = zValue[N(n)] /\ m <= n

\* C25: the node-at-point query answers with a node of the highest z value
\* among the nodes whose shape contains the point, the most recently added
\* of them, and with no node only when no node shape contains the point.
\* The answer to a right click is the source node "Add edge" records, or
\* the menu that is no node's.
C25_TopmostNewestNodeAtPoint ==
    [][~crashed' =>
           /\ lastEvent' = "Add edge at point"
                  => BestNodeAt(edgeSourceNode', cursor')
           /\ lastEvent' \in {"edge menu", "empty-space menu"}
                  => NodesAt(Cur, cursor') = {}]_vars

\* A right click at a point where a node and an edge, or the label of an
\* edge, are both hit, from which the handler returns.
RightClickedNodeAndEdge ==
    /\ lastEvent' \in {"node menu", "edge menu", "empty-space menu"}
    /\ ~crashed'
    /\ NodesAt(Cur, cursor') # {}
    /\ clickedEdge(Cur, cursor') # NULL

\* C26: where a node and an edge or its label are hit at the same point, a
\* right click goes to the node: the menu offered is the node's, and the
\* item that is selected for it is a node at that point, either alone or,
\* when it was selected already, with the selection as it was.
C26_NodeBeforeEdge ==
    [][RightClickedNodeAndEdge =>
           /\ lastEvent' = "node menu"
           /\ \E n \in NodesAt(Cur, cursor') :
                  /\ N(n) \in selected'
                  /\ selected' = {N(n)} \/ selected' = selected]_vars

\* A right click at a point of a node and of the label of an edge has
\* offered the node's menu and selected the node alone.
C26_Witness ==
    /\ lastEvent = "node menu" /\ ~crashed
    /\ clickedEdge(Cur, cursor) # NULL
    /\ labelContains(Cur, clickedEdge(Cur, cursor), cursor)
    /\ \E n \in NodesAt(Cur, cursor) : selected = {N(n)}

\* The elements list s and list t share come in the same order in both, and
\* the elements of t that s does not have come after all the others.
KeepsOrder(s, t) ==
    /\ SelectSeq(s, LAMBDA x : x \in Range(t))
           = SelectSeq(t, LAMBDA x : x \in Range(s))
    /\ t = SelectSeq(t, LAMBDA x : x \in Range(s))
               \o SelectSeq(t, LAMBDA x : x \notin Range(s))

\* C28: the node and the edge collection keep the order of insertion: a
\* step that adds an element appends it at the end, and a step that deletes
\* a node with its edges, or an edge, leaves the elements that stay in the
\* order they had.
C28_CollectionsKeepInsertionOrder ==
    [][KeepsOrder(nodes, nodes') /\ KeepsOrder(edges, edges')]_vars

\* A node was added after a deletion from the middle of the node
\* collection, and edges were deleted from the edge collection, which still
\* has several.
C28_Witness ==
    /\ ~crashed
    /\ \E i \in 2..(Len(nodes) - 1) :
           /\ nodes[i - 1] < nodes[i] - 1
           /\ nodes[Len(nodes)] > Len(TestNodes)
    /\ Len(edges) >= 2
    /\ \E e \in 1..Len(TestEdges) : e \notin Range(edges)

\* The step is a wheel event of the given kind.
WheelStep(kind) ==
    lastEvent' = kind /\ moves' = moves + 1 /\ ~crashed'

\* C23: a wheel step up multiplies the scale of the view by 1.15, that is
\* by 23/20, and a wheel step down divides it by 1.15; the second of two
\* steps up from scale 1 gives 1.3225, that is 529/400; and in every state
\* a step up followed by a step down gives back the scale of that state.
\* The scale is an exact fraction here.
C23_WheelStepScalesByFactor ==
    /\ [][/\ WheelStep("wheel up") => scale' = Times(scale, <<23, 20>>)
          /\ WheelStep("wheel down") => Times(scale', <<23, 20>>) = scale
          /\ (WheelStep("wheel up") /\ lastEvent = "wheel up"
                  /\ scale = <<23, 20>>)
                 => scale' = <<529, 400>>]_vars
    /\ [](handleZoom(handleZoom(Cur, <<0, 120>>, cursor), <<0, -120>>,
                     cursor).scale = scale)

\* Two wheel steps up have taken the view from scale 1 to scale 1.3225.
C23_Witness ==
    /\ lastEvent = "wheel up" /\ moves = 2 /\ ~crashed
    /\ scale = <<529, 400>>

\* C24: Reset View on a scene without items leaves the view at scale 1 and
\* centred on the origin of the scene, whatever its scale and its scroll
\* position were.
C24_ResetOfEmptySceneIsUnitAtOrigin ==
    [][(/\ lastEvent' = "Reset View" /\ ~crashed'
        /\ scene = {} /\ lineItems = {})
           => scale' = Unit /\ scroll' = Origin]_vars

\* Reset View has acted on a scene without items, after all the pointer
\* moves and zoom steps of the run.
C24_Witness ==
    /\ lastEvent = "Reset View" /\ ~crashed
    /\ scene = {} /\ lineItems = {} /\ moves = MaxMoves
    /\ scale = Unit /\ scroll = Origin

\* C35: a wheel event whose angle has no vertical part, a null angle or the
\* step of a sideways wheel, leaves the scale of the view as it was.
C35_NoVerticalAngleKeepsScale ==
    [][(WheelStep("wheel, no angle") \/ WheelStep("wheel sideways"))
           => scale' = scale]_vars

\* C34: the release of the button that began a pan, the left one or the
\* middle one, ends the pan whether Ctrl is down at the release or not, and
\* a pointer move with no button held does not scroll the view.
C34_ReleaseEndsPan ==
    [][/\ (/\ lastEvent' = "release" /\ ~crashed'
           /\ held \in {CtrlLeft, Middle} /\ held' = NoItem)
              => ~isPanning'
       /\ (/\ lastEvent' = "move" /\ ~crashed' /\ moves' = moves + 1
           /\ held = NoItem)
              => scroll' = scroll]_vars

\* C37: the sample network as testGraph leaves it, at start-up and after
\* "new diagram", has 5 nodes and 4 edges, in the collections and in the
\* scene, as the message of testGraph says.
C37_SampleNetworkHasFiveNodesFourEdges ==
    (lastEvent \in {"none", "New"} /\ ~crashed)
        => /\ Len(nodes) = 5 /\ Len(edges) = 4
           /\ Cardinality({x \in scene : IsNode(x)}) = 5
           /\ Cardinality({x \in scene : IsEdge(x)}) = 4

\* C32: the scene holds at most one preview line, and holds one exactly
\* while an edge is being created; "Add edge" chosen during the creation of
\* an edge therefore leaves no earlier preview line in the scene.
C32_AtMostOnePreviewLine ==
    /\ Cardinality(lineItems) <= 1
    /\ lineItems # {} <=> isCreatingEdge

\* C36: in every state an edge is being created exactly when a source node
\* is recorded; and "Add Edge" of the menu bar, chosen when no edge is
\* being created, only shows its guidance and starts no creation.
C36_CreatingIffSourceRecorded ==
    /\ [](isCreatingEdge <=> edgeSourceNode # NULL)
    /\ [][(lastEvent' = "Edit > Add Edge" /\ ~crashed' /\ ~isCreatingEdge)
              => /\ ~isCreatingEdge' /\ edgeSourceNode' = NULL
                 /\ tempEdgeLine' = NULL /\ lineItems' = lineItems
                 /\ notice' = "Please right-click on a source node first"]_vars

\* "Add Edge" of the menu bar was chosen after an edge had been created by
\* "Add edge" and a click, and nothing is being created.
C36_Witness ==
    /\ lastEvent = "Edit > Add Edge" /\ ~crashed /\ ~ub
    /\ ~isCreatingEdge /\ edgeSourceNode = NULL
    /\ notice = "Please right-click on a source node first"
    /\ CreatedEdges = 1 /\ lineItems = {}

\* C31: the selection history holds no deleted node or edge, and the edge
\* list of a node that a selection change reads, a node of the history or
\* of the selection, holds no deleted edge.
C31_SelectionHistoryIsLive ==
    /\ lastSelectedItems \cap destroyed = {}
    /\ \A x \in (lastSelectedItems \cup selected) \ destroyed :
           IsNode(x) =>
               \A k \in 1..Len(edgeList[Id(x)]) :
                   E(edgeList[Id(x)][k]) \notin destroyed

\* What "Delete Node" of the context menu of node n leaves.
ViaMenu(n) == menuDeleteNode(showContextMenu(Cur, N(n)), n)

\* C33: with node n the only selected item, the Delete action leaves the
\* node collection, the set of the edges of the edge collection and the
\* edge lists of the nodes that stay as "Delete Node" of the context menu
\* of n leaves them from the same state.
C33_DeleteSelectedAsDeleteNode ==
    [][\A n \in NodeIds :
           (selected = {N(n)} /\ ~ub /\ lastEvent' = "Delete" /\ ~crashed')
               => /\ nodes' = ViaMenu(n).nodes
                  /\ Range(edges') = Range(ViaMenu(n).edges)
                  /\ \A m \in Range(nodes') :
                         edgeList'[m] = ViaMenu(n).edgeList[m]]_vars

====
